---- MODULE Spec2Model ----
(***************************************************************************)
(* Cross-context orchestration layer of quick-threejs (packages/reactive). *)
(*                                                                         *)
(*   SpecReg     the controlling-side RegisterModule                       *)
(*               (core/register/register.module.ts)                        *)
(*   SpecCore    the worker-resident CoreModule (core/core.module.ts,      *)
(*               both the guarded and the earlier unguarded variant)       *)
(*   SpecLoader  the worker-side LoaderController.load$ and the            *)
(*               controlling-side loadResources subscriptions              *)
(*   SpecMod     the controlling-side RegisterModule of modules/register,  *)
(*               with the worker pool it spawns its workers through        *)
(*                                                                         *)
(* Every specification keeps the variables of the other components at      *)
(* their initial value.                                                    *)
(***************************************************************************)
EXTENDS Integers, Sequences, FiniteSets, TLC

(***************************************************************************)
(* Bounds of the model.                                                    *)
(***************************************************************************)
\* init() calls issued on one RegisterModule
MaxInits == 2
\* dispose() calls issued on one RegisterModule
MaxDisposes == 2
\* calls, messages and timer ticks one CoreModule receives
MaxCoreOps == 5
\* resources handed to one loader
MaxToLoad == 2
\* unrelated messages posted on the app worker's channel
MaxJunk == 1
\* loadResources() calls issued on one RegisterModule
MaxLoads == 1
\* stream pushes the workers of one pool send
MaxPushes == 2

VARIABLES
    \* ---- controlling-side RegisterModule (core/register) ----
    props,          \* RegisterPropsBlueprint: canvas, fullScreen, initOnConstruct
    env,            \* the page: what querySelector finds, the caller canvas' dataset,
                    \* viewport and canvas geometry
    constructed,    \* the constructor has run
    dom,            \* canvas id -> [exists, attached, reactive, placeholder]
    service,        \* RegisterService: canvas, offscreenCanvas, worker, thread
    initialized,    \* RegisterModule.initialized
    initPc,         \* init() call -> where that async call stands
    disposePc,      \* dispose() call -> where that async call stands
    live,           \* worker contexts of the pool that are alive
    spawned,        \* worker contexts the pool has created so far
    handedOff,      \* offscreen surfaces (by canvas id) delivered to a worker
    transferCalls,  \* canvas id -> transferControlToOffscreen() invocations
    offscreenOps,   \* operations of the controlling side on a handed-off surface
    detachedBy,     \* canvas ids dispose() removed from the document
    resizeSent,     \* payloads passed to thread.resize(), in order
    runCalls,       \* workerPool.run() invocations
    onReadyCalls,   \* props.onReady invocations
    stored,         \* init() call -> the handle its spawn step stored (or NoHandle)
    pending,        \* init() call -> the surface listed in its run() request
    \* ---- worker-resident CoreModule ----
    component,      \* CoreComponent: initialized, canvas
    setupLog,       \* subsystem init() calls, in the order they ran
    timerRunning,   \* the timer was started and not disposed
    events,         \* what a subscriber of lifecycle$ has received, in order
    completed,      \* lifecycle$$.complete() has run
    handled,        \* controller handler invocations: <<key, payload>>, in order
    forwarded,      \* proxy-event methods invoked on the module: <<key, payload>>
    coreOps,        \* calls and messages the worker has received
    \* ---- resource loading ----
    ldOpts,         \* loadResources props: disposeOnComplete, immediateLoad
    ldToLoad,       \* the loader's toLoadCount
    ldLoaded,       \* the loader's loadedCount
    ldLoading,      \* load() has reached the loader
    ldDisposed,     \* dispose() has reached the loader
    ldSubs,         \* the streams of the loader that have a subscriber
    wire,           \* messages posted to the app worker, not yet received
    junk,           \* unrelated messages posted on the same channel so far
    received,       \* the messages the app worker has received, in order
    loadSeen,       \* what load$ has emitted, in order
    loadErrored,    \* load$ has ended with an error
    completedSeen,  \* what loadCompleted$ has emitted, in order
    toCtl,          \* pushes of the loader not yet delivered to the caller's side
    toLoader,       \* requests to the loader not yet received by it
    progressSeen,   \* loadedCount of every onProgress call, in order
    completeSeen,   \* loadedCount of every onProgressComplete call, in order
    disposeCalls,   \* thread.dispose() calls made by loadResources
    loadCalls,      \* thread.load() calls: by loadResources itself, by the caller
    lrPc,           \* where the loadResources call stands
    \* ---- controlling-side RegisterModule (modules/register) and its pool ----
    modEvents,      \* what a subscriber of the module's lifecycle$ has received
    modCompleted,   \* the module's lifecycle$$ has been completed
    starting,       \* contexts the pool has spawned that have not signalled readiness
    initCtx,        \* init() call -> the context its run() request spawned
    loadPc,         \* loadResources() call -> where that async call stands
    loadCtx,        \* loadResources() call -> the context its run() request spawned
    subs,           \* context -> the streams of it the module has subscribed to
    channel,        \* context -> its pushes not yet delivered to the module
    pushes,         \* pushes sent by the workers so far
    callbacks,      \* the subscription callbacks that ran, in order
    killed          \* contexts torn down by terminateAll()

regVars == <<props, env, constructed, dom, service, initialized, initPc, disposePc,
             live, spawned, handedOff, transferCalls, offscreenOps, detachedBy,
             resizeSent, runCalls, onReadyCalls, stored, pending>>

coreVars == <<component, setupLog, timerRunning, events, completed, handled, forwarded,
             coreOps>>

loaderVars == <<ldOpts, ldToLoad, ldLoaded, ldLoading, ldDisposed, ldSubs, wire, junk, received,
                loadSeen, loadErrored, completedSeen, toCtl, toLoader, progressSeen,
                completeSeen, disposeCalls, loadCalls, lrPc>>

modVars == <<modEvents, modCompleted, starting, initCtx, loadPc, loadCtx, subs, channel,
             pushes, callbacks, killed>>

vars == <<regVars, coreVars, loaderVars, modVars>>

RegFrame == UNCHANGED <<coreVars, loaderVars, modVars>>
CoreFrame == UNCHANGED <<regVars, loaderVars, modVars>>
LoaderFrame == UNCHANGED <<regVars, coreVars, modVars>>
ModFrame == UNCHANGED <<coreVars, loaderVars>>

(***************************************************************************)
(* Values.                                                                 *)
(***************************************************************************)
\* undefined, for canvas ids and worker ids
None == 0
\* the canvas the caller owns (passed as an element or found by the selector)
CallerCanvas == 1
\* canvas ids: the caller's, then one fallback per init() call at most
CanvasIds == 1..(MaxInits + 1)
Inits == 1..MaxInits
Disposes == 1..MaxDisposes
Loads == 1..MaxLoads
\* worker contexts: one per run() request at most
Contexts == 1..(MaxInits + MaxLoads)

NoHandle == [worker |-> None, thread |-> None, kept |-> FALSE]

NoCanvas == [exists |-> FALSE, attached |-> FALSE, reactive |-> FALSE, placeholder |-> FALSE]

\* props.canvas: absent, an HTMLCanvasElement, a selector, a selector that
\* querySelector rejects with a SyntaxError
CanvasProps == {"undefined", "element", "selector", "badSelector"}

\* window.innerWidth/innerHeight, canvas.width/height, getBoundingClientRect()
Geometries ==
    { [innerWidth |-> 8, innerHeight |-> 6, width |-> 4, height |-> 3, top |-> 1, left |-> 2],
      [innerWidth |-> 9, innerHeight |-> 7, width |-> 5, height |-> 2, top |-> 0, left |-> 0] }

\* what workerPool.run() can settle with
RunOutcomes == {"reject", "absent", "queued", "workerOnly", "threadOnly", "both"}

\* the lifecycle events
INITIALIZED == "INITIALIZED"
UPDATE_STARTED == "UPDATE_STARTED"
UPDATE_ENDED == "UPDATE_ENDED"
DISPOSED == "DISPOSED"

\* an order that sets the camera up before the sizes
SetupStepsCameraFirst == <<"camera", "sizes", "timer", "world", "renderer", "debug">>

\* the subsystems CoreModule.init sets up, in the order of lines 145-150
SetupSteps == <<"sizes", "timer", "camera", "world", "renderer", "debug">>
\* the subsystems the earlier CoreModule.init sets up (lines 40-43)
EarlySetupSteps == <<"sizes", "timer", "camera", "renderer">>

\* the proxied event keys
PROXY_EVENT_LISTENERS == {"resize", "mousemove", "keydown"}

\* width and height of the canvas a message carries
CanvasSizes == {<<4, 3>>, <<5, 2>>}

\* event.data of a message the worker receives: with or without a canvas
NoSurface == <<>>
CoreMessages ==
    [canvas : {NoSurface} \cup CanvasSizes, startTimer : BOOLEAN]

\* a CoreModule right after construction
CoreConstructed ==
    /\ component = [initialized |-> FALSE, canvas |-> NoSurface]
    /\ setupLog = <<>>
    /\ timerRunning = FALSE
    /\ events = <<>>
    /\ completed = FALSE
    /\ handled = <<>>
    /\ forwarded = <<>>
    /\ coreOps = 0

\* a RegisterModule nobody uses
RegUnused ==
    /\ props = [canvas |-> "undefined", fullScreen |-> FALSE, initOnConstruct |-> FALSE]
    /\ env = [selectorMatches |-> FALSE,
              geometry |-> CHOOSE g \in Geometries : g.innerWidth = 8]
    /\ constructed = FALSE
    /\ dom = [c \in CanvasIds |-> NoCanvas]
    /\ service = [canvas |-> None, offscreenCanvas |-> None, worker |-> None, thread |-> None]
    /\ initialized = FALSE
    /\ initPc = [p \in Inits |-> "idle"]
    /\ disposePc = [d \in Disposes |-> "idle"]
    /\ live = {}
    /\ spawned = 0
    /\ handedOff = {}
    /\ transferCalls = [c \in CanvasIds |-> 0]
    /\ offscreenOps = 0
    /\ detachedBy = {}
    /\ resizeSent = <<>>
    /\ runCalls = 0
    /\ onReadyCalls = 0
    /\ stored = [p \in Inits |-> NoHandle]
    /\ pending = [p \in Inits |-> None]

\* the token of a serialized-load envelope
LOADER_SERIALIZED_LOAD_TOKEN == "LOADER_SERIALIZED_LOAD_TOKEN"

\* an optional boolean prop
OptionalBoolean == {"true", "false", "undefined"}

\* the kinds of resource a loader delivers; "buffer" is an ArrayBuffer
ResourceKinds == {"image", "gltfModel", "buffer"}

NoResource == [kind |-> "none", form |-> "none"]
NoSource == [type |-> "none"]
NoPayload ==
    [present |-> FALSE, resource |-> NoResource, loadedCount |-> 0, toLoadCount |-> 0,
     source |-> NoSource]

\* loadResources was never called and no loader exists
LoaderUnused ==
    /\ ldOpts = [disposeOnComplete |-> "undefined", immediateLoad |-> "undefined"]
    /\ ldToLoad = 1
    /\ ldLoaded = 0
    /\ ldLoading = FALSE
    /\ ldDisposed = FALSE
    /\ ldSubs = {}
    /\ wire = <<>>
    /\ junk = 0
    /\ received = <<>>
    /\ loadSeen = <<>>
    /\ loadErrored = FALSE
    /\ completedSeen = <<>>
    /\ toCtl = <<>>
    /\ toLoader = <<>>
    /\ progressSeen = <<>>
    /\ completeSeen = <<>>
    /\ disposeCalls = 0
    /\ loadCalls = 0
    /\ lrPc = "idle"

\* the pool and the lifecycle stream of a module of modules/register that
\* nobody uses
ModUnused ==
    /\ modEvents = <<>>
    /\ modCompleted = FALSE
    /\ starting = {}
    /\ initCtx = [p \in Inits |-> None]
    /\ loadPc = [l \in Loads |-> "idle"]
    /\ loadCtx = [l \in Loads |-> None]
    /\ subs = [w \in Contexts |-> {}]
    /\ channel = [w \in Contexts |-> <<>>]
    /\ pushes = 0
    /\ callbacks = <<>>
    /\ killed = {}

(***************************************************************************)
(* Controlling-side RegisterModule: core/register/register.module.ts       *)
(***************************************************************************)
RegInit ==
    /\ props \in [canvas : CanvasProps, fullScreen : BOOLEAN, initOnConstruct : BOOLEAN]
    /\ env \in [selectorMatches : BOOLEAN, geometry : Geometries]
    /\ constructed = FALSE
    /\ \E r \in BOOLEAN :
          dom = [c \in CanvasIds |->
                    IF c = CallerCanvas
                    THEN [exists |-> TRUE, attached |-> TRUE, reactive |-> r,
                          placeholder |-> FALSE]
                    ELSE NoCanvas]
    /\ service = [canvas |-> None, offscreenCanvas |-> None, worker |-> None, thread |-> None]
    /\ initialized = FALSE
    /\ initPc = [p \in Inits |-> "idle"]
    /\ disposePc = [d \in Disposes |-> "idle"]
    /\ live = {}
    /\ spawned = 0
    /\ handedOff = {}
    /\ transferCalls = [c \in CanvasIds |-> 0]
    /\ offscreenOps = 0
    /\ detachedBy = {}
    /\ resizeSent = <<>>
    /\ runCalls = 0
    /\ onReadyCalls = 0
    /\ stored = [p \in Inits |-> NoHandle]
    /\ pending = [p \in Inits |-> None]

\* document.createElement("canvas"): the first canvas id not in use
FreshCanvas == CHOOSE c \in CanvasIds : ~dom[c].exists /\ \A b \in CanvasIds : b < c => dom[b].exists

\* document.querySelector(props.canvas)
QuerySelector == IF env.selectorMatches THEN CallerCanvas ELSE None

\* _initCanvas, lines 47-55: the canvas the props name, if any
InitCanvasFound ==
    LET c1 == IF props.canvas = "element" THEN CallerCanvas ELSE service.canvas
    IN  IF props.canvas = "selector" /\ QuerySelector # None THEN QuerySelector ELSE c1

\* _initCanvas created the fallback canvas (dataset.reactive = "true",
\* appended to document.body).  A selector that querySelector rejects throws
\* inside the try block: the catch logs and the fallback branch is skipped.
InitCanvasCreates == props.canvas # "badSelector" /\ InitCanvasFound = None

\* _initCanvas: the canvas left in _service.canvas
InitCanvasResult == IF InitCanvasCreates THEN FreshCanvas ELSE InitCanvasFound

\* init(): the guard, then _initCanvas, run synchronously by the call
InitBegin(p) ==
    IF initialized
    THEN /\ initPc' = [initPc EXCEPT ![p] = "noop"]
         /\ UNCHANGED <<service, dom>>
    ELSE /\ initPc' = [initPc EXCEPT ![p] = "workerThread"]
         /\ service' = [service EXCEPT !.canvas = InitCanvasResult]
         /\ dom' = IF InitCanvasCreates
                   THEN [dom EXCEPT ![InitCanvasResult] =
                            [exists |-> TRUE, attached |-> TRUE, reactive |-> TRUE,
                             placeholder |-> FALSE]]
                   ELSE dom

\* new RegisterModule(...): calls init() when props.initOnConstruct
Construct ==
    /\ RegFrame
    /\ ~constructed
    /\ constructed' = TRUE
    /\ IF props.initOnConstruct
       THEN InitBegin(1)
       ELSE UNCHANGED <<initPc, service, dom>>
    /\ UNCHANGED <<props, env, initialized, disposePc, live, spawned, handedOff,
                   transferCalls, offscreenOps, detachedBy, resizeSent, runCalls,
                   onReadyCalls, stored, pending>>

\* a caller invokes init()
InitCall(p) ==
    /\ RegFrame
    /\ constructed
    /\ initPc[p] = "idle"
    /\ \A q \in Inits : q < p => initPc[q] # "idle"
    /\ InitBegin(p)
    /\ UNCHANGED <<props, env, constructed, initialized, disposePc, live, spawned,
                   handedOff, transferCalls, offscreenOps, detachedBy, resizeSent,
                   runCalls, onReadyCalls, stored, pending>>

\* _initWorkerThread up to its await: the canvas check, the transfer of
\* control (which the DOM refuses with InvalidStateError for a canvas that
\* is already a placeholder), and the workerPool.run() request
InitWorkerThread(p) ==
    /\ RegFrame
    /\ initPc[p] = "workerThread"
    /\ LET c == service.canvas IN
       IF c = None
       THEN /\ initPc' = [initPc EXCEPT ![p] = "rejected"]
            /\ UNCHANGED <<dom, service, transferCalls, runCalls, pending>>
       ELSE /\ transferCalls' = [transferCalls EXCEPT ![c] = @ + 1]
            /\ IF dom[c].placeholder
               THEN /\ initPc' = [initPc EXCEPT ![p] = "rejected"]
                    /\ UNCHANGED <<dom, service, runCalls, pending>>
               ELSE /\ dom' = [dom EXCEPT ![c].placeholder = TRUE]
                    /\ service' = [service EXCEPT !.offscreenCanvas = c]
                    /\ runCalls' = runCalls + 1
                    /\ pending' = [pending EXCEPT ![p] = c]
                    /\ initPc' = [initPc EXCEPT ![p] = "run"]
    /\ UNCHANGED <<props, env, constructed, initialized, disposePc, live, spawned,
                   handedOff, offscreenOps, detachedBy, resizeSent, onReadyCalls, stored>>

\* the handle workerPool.run() resolves with, for a context w
RunHandle(outcome, w) ==
    [worker |-> IF outcome \in {"workerOnly", "both"} THEN w ELSE None,
     thread |-> IF outcome \in {"threadOnly", "both"} THEN w ELSE None]

\* the outcomes in which the pool spawned a context and delivered the payload
RunSpawns(outcome) == outcome \in {"workerOnly", "threadOnly", "both"}

\* _initWorkerThread, line 119: the results the caller treats as fatal
WorkerThreadFatal(outcome) == outcome \in {"reject", "absent", "queued"}

\* workerPool.run() settles and _initWorkerThread resumes (lines 119-123)
RunSettle(p, outcome) ==
    /\ RegFrame
    /\ initPc[p] = "run"
    /\ LET w == spawned + 1 IN
       /\ IF RunSpawns(outcome)
          THEN /\ spawned' = w
               /\ live' = live \cup {w}
               /\ handedOff' = handedOff \cup {pending[p]}
          ELSE UNCHANGED <<spawned, live, handedOff>>
       /\ IF WorkerThreadFatal(outcome)
          THEN /\ initPc' = [initPc EXCEPT ![p] = "rejected"]
               /\ UNCHANGED <<service, stored>>
          ELSE /\ service' = [service EXCEPT !.worker = RunHandle(outcome, w).worker,
                                             !.thread = RunHandle(outcome, w).thread]
               /\ stored' = [stored EXCEPT ![p] =
                                [worker |-> RunHandle(outcome, w).worker,
                                 thread |-> RunHandle(outcome, w).thread,
                                 kept |-> TRUE]]
               /\ initPc' = [initPc EXCEPT ![p] = "service"]
    /\ UNCHANGED <<props, env, constructed, dom, initialized, disposePc, transferCalls,
                   offscreenOps, detachedBy, resizeSent, runCalls, onReadyCalls, pending>>

\* _initService: hands worker and thread to the service
InitService(p) ==
    /\ RegFrame
    /\ initPc[p] = "service"
    /\ initPc' = [initPc EXCEPT ![p] = "controller"]
    /\ UNCHANGED <<props, env, constructed, dom, service, initialized, disposePc, live,
                   spawned, handedOff, transferCalls, offscreenOps, detachedBy,
                   resizeSent, runCalls, onReadyCalls, stored, pending>>

\* RegisterController.uiEventHandler({type: "resize"})
UiEventHandlerResize ==
    LET g == env.geometry
        w == IF props.fullScreen THEN g.innerWidth ELSE g.width
        h == IF props.fullScreen THEN g.innerHeight ELSE g.height
    IN  [type |-> "resize", x |-> w, y |-> h, top |-> g.top, left |-> g.left,
         width |-> w, height |-> h]

\* _initController, lines 83-90: whether a resize is forwarded to the thread
ControllerForwardsResize ==
    /\ service.thread # None
    /\ service.worker # None
    /\ props.fullScreen

\* _initController
InitController(p) ==
    /\ RegFrame
    /\ initPc[p] = "controller"
    /\ IF service.canvas = None
       THEN /\ initPc' = [initPc EXCEPT ![p] = "rejected"]
            /\ UNCHANGED resizeSent
       ELSE /\ initPc' = [initPc EXCEPT ![p] = "proxyEvents"]
            /\ resizeSent' = IF ControllerForwardsResize
                             THEN Append(resizeSent, [by |-> p, payload |-> UiEventHandlerResize])
                             ELSE resizeSent
    /\ UNCHANGED <<props, env, constructed, dom, service, initialized, disposePc, live,
                   spawned, handedOff, transferCalls, offscreenOps, detachedBy,
                   runCalls, onReadyCalls, stored, pending>>

\* _initObservableProxyEvents
InitObservableProxyEvents(p) ==
    /\ RegFrame
    /\ initPc[p] = "proxyEvents"
    /\ initPc' = [initPc EXCEPT ![p] = "loader"]
    /\ UNCHANGED <<props, env, constructed, dom, service, initialized, disposePc, live,
                   spawned, handedOff, transferCalls, offscreenOps, detachedBy,
                   resizeSent, runCalls, onReadyCalls, stored, pending>>

\* _initLoader
InitLoader(p) ==
    /\ RegFrame
    /\ initPc[p] = "loader"
    /\ initPc' = [initPc EXCEPT ![p] = "ready"]
    /\ UNCHANGED <<props, env, constructed, dom, service, initialized, disposePc, live,
                   spawned, handedOff, transferCalls, offscreenOps, detachedBy,
                   resizeSent, runCalls, onReadyCalls, stored, pending>>

\* init(), line 158: props.onReady
InitReady(p) ==
    /\ RegFrame
    /\ initPc[p] = "ready"
    /\ initPc' = [initPc EXCEPT ![p] = "done"]
    /\ onReadyCalls' = onReadyCalls + 1
    /\ UNCHANGED <<props, env, constructed, dom, service, initialized, disposePc, live,
                   spawned, handedOff, transferCalls, offscreenOps, detachedBy,
                   resizeSent, runCalls, stored, pending>>

\* dispose() up to its await: workerPool.terminateAll()
DisposeCall(d) ==
    /\ RegFrame
    /\ constructed
    /\ disposePc[d] = "idle"
    /\ \A e \in Disposes : e < d => disposePc[e] # "idle"
    /\ disposePc' = [disposePc EXCEPT ![d] = "terminating"]
    /\ live' = {}
    /\ UNCHANGED <<props, env, constructed, dom, service, initialized, initPc, spawned,
                   handedOff, transferCalls, offscreenOps, detachedBy, resizeSent,
                   runCalls, onReadyCalls, stored, pending>>

\* dispose(), line 188: the controlling side calls getContext("2d") on the
\* surface it holds
DisposeTouchesSurface == service.offscreenCanvas # None

\* dispose(), line 190: the canvas is taken out of the document
DisposeDetaches == service.canvas # None /\ dom[service.canvas].reactive

\* dispose() after its await (lines 188-196).  getContext() on a surface
\* that was transferred away is refused by some engines with an
\* InvalidStateError and answered with null by others: both are outcomes.
DisposeFinish(d, refused) ==
    /\ RegFrame
    /\ disposePc[d] = "terminating"
    /\ LET touched == DisposeTouchesSurface /\ service.offscreenCanvas \in handedOff IN
       /\ offscreenOps' = IF touched THEN offscreenOps + 1 ELSE offscreenOps
       /\ IF touched /\ refused
          THEN /\ disposePc' = [disposePc EXCEPT ![d] = "rejected"]
               /\ UNCHANGED <<dom, service, detachedBy, initialized>>
          ELSE /\ disposePc' = [disposePc EXCEPT ![d] = "done"]
               /\ initialized' = FALSE
               /\ IF DisposeDetaches
                  THEN /\ dom' = [dom EXCEPT ![service.canvas].attached = FALSE]
                       /\ detachedBy' = detachedBy \cup {service.canvas}
                       /\ service' = [service EXCEPT !.canvas = None]
                  ELSE UNCHANGED <<dom, service, detachedBy>>
    /\ UNCHANGED <<props, env, constructed, initPc, live, spawned, handedOff,
                   transferCalls, resizeSent, runCalls, onReadyCalls, stored, pending>>

RegNext ==
    \/ Construct
    \/ \E p \in Inits : InitCall(p)
    \/ \E p \in Inits : InitWorkerThread(p)
    \/ \E p \in Inits : \E outcome \in RunOutcomes : RunSettle(p, outcome)
    \/ \E p \in Inits : InitService(p)
    \/ \E p \in Inits : InitController(p)
    \/ \E p \in Inits : InitObservableProxyEvents(p)
    \/ \E p \in Inits : InitLoader(p)
    \/ \E p \in Inits : InitReady(p)
    \/ \E d \in Disposes : DisposeCall(d)
    \/ \E d \in Disposes : \E refused \in BOOLEAN : DisposeFinish(d, refused)

\* the module before any call; the worker side and the loader stay untouched
RegStart == RegInit /\ CoreConstructed /\ LoaderUnused /\ ModUnused

SpecReg == RegStart /\ [][RegNext]_vars

(***************************************************************************)
(* Claims about the controlling-side RegisterModule.                       *)
(***************************************************************************)
NoDisposeYet == \A d \in Disposes : disposePc[d] = "idle"

\* C1: whatever workerPool.run resolves with, the spawn step either stores a
\* handle whose worker context and thread proxy are both defined or throws;
\* it never stores a handle with only one of the two.
C1_StoredHandleHasBoth ==
    \A p \in Inits :
        stored[p].kept => stored[p].worker # None /\ stored[p].thread # None

\* C1: run resolved with a handle that lacks one of the two and the spawn
\* step went on
C1_HalfHandleStored ==
    \E p \in Inits :
        /\ stored[p].kept
        /\ (stored[p].worker = None) # (stored[p].thread = None)
        /\ initPc[p] \notin {"rejected", "run"}

\* C4: an init() call issued after a first init() (no dispose() in between)
\* is a silent no-op: it requests no worker, transfers no canvas, does not
\* call onReady again and does not throw.
C4_LaterInitIsNoOp ==
    NoDisposeYet =>
        /\ \A p \in Inits : p > 1 => initPc[p] \in {"idle", "noop"}
        /\ runCalls <= 1
        /\ onReadyCalls <= 1
        /\ \A c \in CanvasIds : transferCalls[c] <= 1

\* C5: over any sequence of init() and dispose() calls, the transfer of
\* control of a given canvas to an offscreen surface is performed at most
\* once.
C5_TransferAtMostOnce == \A c \in CanvasIds : transferCalls[c] <= 1

\* C6: once the offscreen surface has been handed to the worker, the
\* controlling context performs no further operation on it, dispose()
\* included.
C6_NoOperationAfterHandOff == offscreenOps = 0

\* C7: a dispose() that runs to completion detaches the canvas held by the
\* module if and only if it is a fallback canvas the module created; the
\* caller's canvas stays where it is.
C7_DetachesOnlyFallback ==
    [][\A d \in Disposes :
          (disposePc[d] = "terminating" /\ disposePc'[d] = "done") =>
              /\ dom'[CallerCanvas].attached = dom[CallerCanvas].attached
              /\ (service.canvas # None /\ service.canvas # CallerCanvas)
                    => ~dom'[service.canvas].attached]_vars

\* the payload the claim C8 describes
ExpectedResizePayload ==
    LET g == env.geometry IN
    [type |-> "resize",
     x |-> IF props.fullScreen THEN g.innerWidth ELSE g.width,
     y |-> IF props.fullScreen THEN g.innerHeight ELSE g.height,
     top |-> g.top, left |-> g.left,
     width |-> IF props.fullScreen THEN g.innerWidth ELSE g.width,
     height |-> IF props.fullScreen THEN g.innerHeight ELSE g.height]

\* C8: whenever the controller step of init() runs with a worker and a
\* thread in place, it forwards one resize payload with type "resize",
\* width = x and height = y taken from the viewport when fullScreen and from
\* the canvas otherwise, and the canvas offsets as top/left: for fullScreen
\* true and for fullScreen false.
C8_ResizeForwardedAtInit ==
    [][\A p \in Inits :
          (/\ initPc[p] = "controller"
           /\ initPc'[p] = "proxyEvents"
           /\ service.thread # None
           /\ service.worker # None) =>
              resizeSent' = Append(resizeSent, [by |-> p, payload |-> ExpectedResizePayload])]_vars

(***************************************************************************)
(* Worker-resident CoreModule: core/core.module.ts, lines 96-177           *)
(***************************************************************************)
\* Subject.next on lifecycle$$: a completed subject delivers nothing
LifecycleNext(seq, done, v) == IF done THEN seq ELSE Append(seq, v)

\* the setup steps that complete when the step failAt throws ("none": all)
StepsCompleted(steps, failAt) ==
    IF failAt = "none" THEN steps
    ELSE LET k == CHOOSE i \in 1..Len(steps) : steps[i] = failAt
         IN  SubSeq(steps, 1, k - 1)

\* the guard of init (line 135) and of _onMessage (line 114)
InitGuardReturns(data) == data.canvas = NoSurface \/ component.initialized

\* init(props), lines 134-153; failAt names the subsystem whose init throws
CoreInitBody(data, failAt) ==
    IF InitGuardReturns(data)
    THEN /\ failAt = "none"
         /\ UNCHANGED <<component, setupLog, timerRunning, events>>
    ELSE LET ran == StepsCompleted(SetupSteps, failAt) IN
         /\ component' = [initialized |-> TRUE, canvas |-> data.canvas]
         /\ setupLog' = setupLog \o ran
         /\ timerRunning' = IF \E i \in 1..Len(ran) : ran[i] = "timer"
                            THEN data.startTimer
                            ELSE timerRunning
         /\ events' = IF failAt = "none"
                      THEN LifecycleNext(events, completed, INITIALIZED)
                      ELSE events

FailPoints == {"none"} \cup {SetupSteps[i] : i \in 1..Len(SetupSteps)}

\* _onMessage: a message arrives on the worker's global scope
CoreOnMessage(data, failAt) ==
    /\ CoreFrame
    /\ coreOps < MaxCoreOps
    /\ coreOps' = coreOps + 1
    /\ CoreInitBody(data, failAt)
    /\ UNCHANGED <<completed, handled, forwarded>>

\* init(props) called through the exposed module
CoreInit(data, failAt) ==
    /\ CoreFrame
    /\ coreOps < MaxCoreOps
    /\ coreOps' = coreOps + 1
    /\ CoreInitBody(data, failAt)
    /\ UNCHANGED <<completed, handled, forwarded>>

\* a dispose() that emits DISPOSED and leaves the stream open
CoreDisposeNoComplete ==
    /\ CoreFrame
    /\ coreOps < MaxCoreOps
    /\ coreOps' = coreOps + 1
    /\ timerRunning' = FALSE
    /\ events' = LifecycleNext(events, completed, DISPOSED)
    /\ UNCHANGED <<component, setupLog, completed, handled, forwarded>>

\* dispose(), lines 163-172.  removeEventListener is given a fresh bound
\* function, which is not the registered listener: the listener stays.
CoreDispose ==
    /\ CoreFrame
    /\ coreOps < MaxCoreOps
    /\ coreOps' = coreOps + 1
    /\ timerRunning' = FALSE
    /\ events' = LifecycleNext(events, completed, DISPOSED)
    /\ completed' = TRUE
    /\ UNCHANGED <<component, setupLog, handled, forwarded>>

\* one update tick of the running timer: UPDATE_STARTED, the render work,
\* UPDATE_ENDED
CoreTick ==
    /\ CoreFrame
    /\ coreOps < MaxCoreOps
    /\ timerRunning
    /\ coreOps' = coreOps + 1
    /\ events' = LifecycleNext(LifecycleNext(events, completed, UPDATE_STARTED),
                               completed, UPDATE_ENDED)
    /\ UNCHANGED <<component, setupLog, timerRunning, completed, handled, forwarded>>

\* the handler every forwarded event ends in
ProxyEventTargetShared(key) == "resize"

\* _initProxyEvents, line 158: the controller handler the method installed
\* for key calls
ProxyEventTarget(key) == key

\* the method _initProxyEvents installed for key is invoked with payload
\* (lines 157-159): it calls the controller handler and nothing else
CoreForward(key, payload) ==
    /\ CoreFrame
    /\ coreOps < MaxCoreOps
    /\ coreOps' = coreOps + 1
    /\ forwarded' = Append(forwarded, <<key, payload>>)
    /\ handled' = Append(handled, <<ProxyEventTarget(key), payload>>)
    /\ UNCHANGED <<component, setupLog, timerRunning, events, completed>>

CoreNext ==
    \/ \E data \in CoreMessages : \E failAt \in FailPoints : CoreOnMessage(data, failAt)
    \/ \E data \in CoreMessages : \E failAt \in FailPoints : CoreInit(data, failAt)
    \/ CoreDispose
    \/ CoreTick
    \/ \E key \in PROXY_EVENT_LISTENERS : \E payload \in CanvasSizes : CoreForward(key, payload)

\* the worker module right after its constructor
CoreStart == RegUnused /\ CoreConstructed /\ LoaderUnused /\ ModUnused

SpecCore == CoreStart /\ [][CoreNext]_vars

(***************************************************************************)
(* The earlier CoreModule: core/core.module.ts, lines 20-71                *)
(***************************************************************************)
\* init(canvas), lines 35-44: setSize, then the four subsystems
EarlyInitBody(canvas) ==
    /\ component' = [component EXCEPT !.canvas = canvas]
    /\ handled' = Append(handled, <<"resize", canvas>>)
    /\ setupLog' = setupLog \o EarlySetupSteps

\* self.onmessage, lines 29-32
EarlyOnMessage(data) ==
    /\ CoreFrame
    /\ coreOps < MaxCoreOps
    /\ coreOps' = coreOps + 1
    /\ IF data.canvas # NoSurface
       THEN EarlyInitBody(data.canvas)
       ELSE UNCHANGED <<component, handled, setupLog>>
    /\ UNCHANGED <<timerRunning, events, completed, forwarded>>

\* the exposed init, line 70: () => {}
EarlyExposedInit ==
    /\ CoreFrame
    /\ coreOps < MaxCoreOps
    /\ coreOps' = coreOps + 1
    /\ UNCHANGED <<component, setupLog, timerRunning, events, completed, handled, forwarded>>

\* setSize(width, height), lines 46-48
EarlySetSize(size) ==
    /\ CoreFrame
    /\ coreOps < MaxCoreOps
    /\ coreOps' = coreOps + 1
    /\ handled' = Append(handled, <<"resize", size>>)
    /\ UNCHANGED <<component, setupLog, timerRunning, events, completed, forwarded>>

\* setPointerLock, mouseMove, keyEvent, lines 50-60
EarlyForward(key, payload) ==
    /\ CoreFrame
    /\ coreOps < MaxCoreOps
    /\ coreOps' = coreOps + 1
    /\ handled' = Append(handled, <<key, payload>>)
    /\ UNCHANGED <<component, setupLog, timerRunning, events, completed, forwarded>>

EarlyNext ==
    \/ \E data \in CoreMessages : EarlyOnMessage(data)
    \/ EarlyExposedInit
    \/ \E size \in CanvasSizes : EarlySetSize(size)
    \/ \E key \in {"setPointerLock", "move", "keyEvent"} :
          \E payload \in CanvasSizes : EarlyForward(key, payload)

SpecCoreEarly == CoreStart /\ [][EarlyNext]_vars

(***************************************************************************)
(* Claims about the worker-resident CoreModule.                            *)
(***************************************************************************)
\* how often v occurs in seq
Occurrences(seq, v) == Cardinality({i \in 1..Len(seq) : seq[i] = v})

\* seq is a prefix of INITIALIZED (UPDATE_STARTED UPDATE_ENDED)* DISPOSED
LifecycleWellFormed(seq) ==
    \A i \in 1..Len(seq) :
        /\ (seq[i] = INITIALIZED) <=> (i = 1)
        /\ seq[i] = UPDATE_STARTED => seq[i - 1] \in {INITIALIZED, UPDATE_ENDED}
        /\ seq[i] = UPDATE_ENDED => seq[i - 1] = UPDATE_STARTED
        /\ seq[i] = DISPOSED => i = Len(seq) /\ seq[i - 1] \in {INITIALIZED, UPDATE_ENDED}

\* C2: over any sequence of canvas messages, init() and dispose() calls the
\* lifecycle stream shows INITIALIZED once, first, then UPDATE_STARTED and
\* UPDATE_ENDED in strict alternation, then one DISPOSED and nothing after.
C2_LifecycleOrder == LifecycleWellFormed(events)

\* C3: over any sequence of messages and init() calls every subsystem is
\* set up at most once and INITIALIZED is emitted at most once.
C3_SetupAtMostOnce ==
    /\ \A s \in {"sizes", "timer", "camera", "world", "renderer"} :
          Occurrences(setupLog, s) <= 1
    /\ Occurrences(events, INITIALIZED) <= 1

\* isInitialized(), lines 130-132
IsInitialized == component.initialized

\* C22: whenever no init() call is in progress, isInitialized() returning
\* true implies that INITIALIZED has been emitted on the lifecycle stream,
\* also when a subsystem setup step threw during init.
C22_InitializedImpliesEmitted ==
    IsInitialized => Occurrences(events, INITIALIZED) >= 1

\* dispose() has been called: it is the only operation that completes
\* lifecycle$$ (line 171)
DisposeWasCalled == completed

\* C23: once dispose() has been called, no later canvas-carrying message
\* and no later init() call runs a subsystem setup step, whether dispose()
\* came after or before the first initialisation.
C23_NoSetupAfterDispose ==
    [][DisposeWasCalled => setupLog' = setupLog]_vars

(***************************************************************************)
(* Resource loading: the loader, the envelope posted to the app worker     *)
(* (core/register/register.module.ts, _initLoader), the worker-side        *)
(* LoaderController (core/app/loader/loader.controller.ts) and the         *)
(* caller-side loadResources (modules/register/register.module.ts).        *)
(***************************************************************************)
LoaderInit ==
    /\ ldOpts \in [disposeOnComplete : OptionalBoolean, immediateLoad : OptionalBoolean]
    /\ ldToLoad \in 1..MaxToLoad
    /\ ldLoaded = 0
    /\ ldLoading = FALSE
    /\ ldDisposed = FALSE
    /\ ldSubs = {}
    /\ wire = <<>>
    /\ junk = 0
    /\ received = <<>>
    /\ loadSeen = <<>>
    /\ loadErrored = FALSE
    /\ completedSeen = <<>>
    /\ toCtl = <<>>
    /\ toLoader = <<>>
    /\ progressSeen = <<>>
    /\ completeSeen = <<>>
    /\ disposeCalls = 0
    /\ loadCalls = 0
    /\ lrPc = "idle"

\* the resource as the loader serializes it for the boundary
SerializedResource(kind) ==
    [kind |-> kind,
     form |-> IF kind = "gltfModel" THEN "serialized"
              ELSE IF kind = "buffer" THEN "arrayBuffer"
              ELSE "plain"]

\* the progress payload of the item that brings loadedCount to n
ProgressPayload(kind, n) ==
    [present |-> TRUE, resource |-> SerializedResource(kind), loadedCount |-> n,
     toLoadCount |-> ldToLoad, source |-> [type |-> kind]]

\* _initLoader, lines 135-145: what is posted to the worker for a payload of
\* serializedLoad$ (raw: event.data is the ArrayBuffer itself)
PostedMessage(payload) ==
    IF payload.resource.form = "arrayBuffer"
    THEN [token |-> "none", payload |-> NoPayload, raw |-> TRUE]
    ELSE [token |-> LOADER_SERIALIZED_LOAD_TOKEN, payload |-> payload, raw |-> FALSE]

\* messages that do not have the shape of a serialized-load envelope
MalformedMessages ==
    LET ok == [present |-> TRUE, resource |-> SerializedResource("image"),
               loadedCount |-> 1, toLoadCount |-> 2, source |-> [type |-> "image"]]
    IN  { [token |-> "none", payload |-> NoPayload, raw |-> FALSE],
          [token |-> "other", payload |-> ok, raw |-> FALSE],
          [token |-> "none", payload |-> ok, raw |-> FALSE],
          [token |-> LOADER_SERIALIZED_LOAD_TOKEN, payload |-> NoPayload, raw |-> FALSE],
          [token |-> LOADER_SERIALIZED_LOAD_TOKEN,
           payload |-> [ok EXCEPT !.resource = NoResource], raw |-> FALSE],
          [token |-> LOADER_SERIALIZED_LOAD_TOKEN,
           payload |-> [ok EXCEPT !.source = NoSource], raw |-> FALSE] }

\* load$, lines 23-28: the filter
LoadFilter(m) ==
    /\ m.token = LOADER_SERIALIZED_LOAD_TOKEN
    /\ m.payload.present
    /\ m.payload.resource # NoResource

\* load$, line 32: payload.source.type is read of a payload without source
LoadMapThrows(m) == m.payload.source = NoSource

\* load$, lines 29-58: the map
LoadMap(payload) ==
    IF payload.source.type = "gltfModel"
    THEN [payload EXCEPT !.resource.form = "deserialized"]
    ELSE payload

\* a filter that lets every payload within the total through
LoadCompletedFilterLoose(payload) == payload.loadedCount <= payload.toLoadCount

\* loadCompleted$, lines 62-64: the filter
LoadCompletedFilter(payload) == payload.toLoadCount = payload.loadedCount

\* the worker receives the next message of its channel
WorkerReceive ==
    /\ LoaderFrame
    /\ wire # <<>>
    /\ wire' = Tail(wire)
    /\ received' = Append(received, Head(wire))
    /\ LET m == Head(wire) IN
       IF loadErrored \/ ~LoadFilter(m)
       THEN UNCHANGED <<loadSeen, loadErrored, completedSeen>>
       ELSE IF LoadMapThrows(m)
       THEN /\ loadErrored' = TRUE
            /\ UNCHANGED <<loadSeen, completedSeen>>
       ELSE /\ loadSeen' = Append(loadSeen, LoadMap(m.payload))
            /\ completedSeen' = IF LoadCompletedFilter(LoadMap(m.payload))
                                THEN Append(completedSeen, LoadMap(m.payload))
                                ELSE completedSeen
            /\ UNCHANGED loadErrored
    /\ UNCHANGED <<ldOpts, ldToLoad, ldLoaded, ldLoading, ldDisposed, ldSubs, junk, toCtl,
                   toLoader, progressSeen, completeSeen, disposeCalls, loadCalls, lrPc>>

\* some other code posts a message on the worker's channel
UnrelatedMessage(m) ==
    /\ LoaderFrame
    /\ junk < MaxJunk
    /\ junk' = junk + 1
    /\ wire' = Append(wire, m)
    /\ UNCHANGED <<received, ldOpts, ldToLoad, ldLoaded, ldLoading, ldDisposed, ldSubs, loadSeen,
                   loadErrored, completedSeen, toCtl, toLoader, progressSeen, completeSeen,
                   disposeCalls, loadCalls, lrPc>>

\* the pushes of the loader for one completed item: progress$, then
\* progressCompleted$, each to its subscriber if it has one
ItemPushes(n) ==
    LET push(stream) == [stream |-> stream, loadedCount |-> n, toLoadCount |-> ldToLoad]
    IN  (IF "progress$" \in ldSubs THEN <<push("progress$")>> ELSE <<>>)
        \o (IF "progressCompleted$" \in ldSubs THEN <<push("progressCompleted$")>> ELSE <<>>)

\* the loader completes one item
LoaderItem(kind) ==
    /\ LoaderFrame
    /\ ldLoading
    /\ ~ldDisposed
    /\ ldLoaded < ldToLoad
    /\ ldLoaded' = ldLoaded + 1
    /\ toCtl' = toCtl \o ItemPushes(ldLoaded + 1)
    /\ wire' = Append(wire, PostedMessage(ProgressPayload(kind, ldLoaded + 1)))
    /\ UNCHANGED <<received, ldOpts, ldToLoad, ldLoading, ldDisposed, ldSubs, junk, loadSeen,
                   loadErrored, completedSeen, toLoader, progressSeen, completeSeen,
                   disposeCalls, loadCalls, lrPc>>

\* the loader receives the next request of its channel
LoaderReceive ==
    /\ LoaderFrame
    /\ toLoader # <<>>
    /\ toLoader' = Tail(toLoader)
    /\ LET r == Head(toLoader) IN
       /\ ldSubs' = IF r = "dispose" THEN {}
                    ELSE IF r \in {"progress$", "progressCompleted$"} /\ ~ldDisposed
                    THEN ldSubs \cup {r}
                    ELSE ldSubs
       /\ ldLoading' = IF r = "load" /\ ~ldDisposed THEN TRUE ELSE ldLoading
       /\ ldDisposed' = IF r = "dispose" THEN TRUE ELSE ldDisposed
    /\ UNCHANGED <<received, ldOpts, ldToLoad, ldLoaded, wire, junk, loadSeen, loadErrored,
                   completedSeen, toCtl, progressSeen, completeSeen, disposeCalls,
                   loadCalls, lrPc>>

\* loadResources, line 166
DisposeOnComplete == ldOpts.disposeOnComplete \in {"true", "undefined"}

\* loadResources, line 170
ImmediateLoad == ldOpts.immediateLoad \in {"true", "undefined"}

\* loadResources is called: workerPool.run() is requested (lines 146-154)
LoadResourcesCall ==
    /\ LoaderFrame
    /\ lrPc = "idle"
    /\ lrPc' = "run"
    /\ UNCHANGED <<received, ldOpts, ldToLoad, ldLoaded, ldLoading, ldDisposed, ldSubs, wire, junk,
                   loadSeen, loadErrored, completedSeen, toCtl, toLoader, progressSeen,
                   completeSeen, disposeCalls, loadCalls>>

\* the load request issued ahead of the two subscriptions
LoadResourcesRequestsLoadFirst ==
    (IF ImmediateLoad THEN <<"load">> ELSE <<>>) \o <<"progress$", "progressCompleted$">>

\* the requests loadResources issues once it holds the handle (lines 156-171)
LoadResourcesRequests ==
    <<"progress$", "progressCompleted$">> \o (IF ImmediateLoad THEN <<"load">> ELSE <<>>)

\* workerPool.run() settles and loadResources goes on (lines 156-171)
LoadResourcesResume(outcome) ==
    /\ LoaderFrame
    /\ lrPc = "run"
    /\ IF outcome = "reject"
       THEN /\ lrPc' = "rejected"
            /\ UNCHANGED <<toLoader, loadCalls>>
       ELSE IF outcome = "noThread"
       THEN /\ lrPc' = "noThread"
            /\ UNCHANGED <<toLoader, loadCalls>>
       ELSE /\ lrPc' = "ready"
            /\ toLoader' = toLoader \o LoadResourcesRequests
            /\ loadCalls' = IF ImmediateLoad THEN loadCalls + 1 ELSE loadCalls
    /\ UNCHANGED <<received, ldOpts, ldToLoad, ldLoaded, ldLoading, ldDisposed, ldSubs, wire, junk,
                   loadSeen, loadErrored, completedSeen, toCtl, progressSeen,
                   completeSeen, disposeCalls>>

\* the caller of loadResources calls the load it was handed back (line 175)
CallerLoad ==
    /\ LoaderFrame
    /\ lrPc = "ready"
    /\ ~ImmediateLoad
    /\ loadCalls = 0
    /\ loadCalls' = 1
    /\ toLoader' = Append(toLoader, "load")
    /\ UNCHANGED <<received, ldOpts, ldToLoad, ldLoaded, ldLoading, ldDisposed, ldSubs, wire, junk,
                   loadSeen, loadErrored, completedSeen, toCtl, progressSeen,
                   completeSeen, disposeCalls, lrPc>>

\* a push of the loader reaches the subscriptions of loadResources
\* (lines 156-168)
PushDelivered ==
    /\ LoaderFrame
    /\ toCtl # <<>>
    /\ toCtl' = Tail(toCtl)
    /\ LET push == Head(toCtl) IN
       IF push.stream = "progress$"
       THEN /\ progressSeen' = Append(progressSeen, push.loadedCount)
            /\ UNCHANGED <<completeSeen, toLoader, disposeCalls>>
       ELSE /\ completeSeen' = Append(completeSeen, push.loadedCount)
            /\ IF DisposeOnComplete
               THEN /\ toLoader' = Append(toLoader, "dispose")
                    /\ disposeCalls' = disposeCalls + 1
               ELSE UNCHANGED <<toLoader, disposeCalls>>
            /\ UNCHANGED progressSeen
    /\ UNCHANGED <<received, ldOpts, ldToLoad, ldLoaded, ldLoading, ldDisposed, ldSubs, wire, junk,
                   loadSeen, loadErrored, completedSeen, loadCalls, lrPc>>

LoaderNext ==
    \/ WorkerReceive
    \/ \E m \in MalformedMessages : UnrelatedMessage(m)
    \/ \E kind \in ResourceKinds : LoaderItem(kind)
    \/ LoaderReceive
    \/ LoadResourcesCall
    \/ \E outcome \in {"thread", "noThread", "reject"} : LoadResourcesResume(outcome)
    \/ CallerLoad
    \/ PushDelivered

\* before loadResources is called
LoaderStart == RegUnused /\ CoreConstructed /\ LoaderInit /\ ModUnused

SpecLoader == LoaderStart /\ [][LoaderNext]_vars

(***************************************************************************)
(* Claims about resource loading.                                          *)
(***************************************************************************)
\* an envelope of the expected shape: the token, a payload, a resource and a
\* source descriptor
WellFormedEnvelope(m) ==
    /\ m.token = LOADER_SERIALIZED_LOAD_TOKEN
    /\ m.payload.present
    /\ m.payload.resource # NoResource
    /\ m.payload.source # NoSource

\* the loadedCount of the payloads of seq never decreases and never exceeds
\* their toLoadCount
CountsMonotone(seq) ==
    /\ \A i \in 1..Len(seq) : seq[i].loadedCount <= seq[i].toLoadCount
    /\ \A i, j \in 1..Len(seq) : i < j => seq[i].loadedCount <= seq[j].loadedCount

\* C9: load$ emits once, in arrival order, for each received message of the
\* expected shape, and a message that fails the shape is dropped: it causes
\* no emission and no error on the stream, and later well-formed messages
\* are still delivered.
C9_MalformedSilentlyDropped ==
    LET wf == SelectSeq(received, WellFormedEnvelope) IN
    /\ ~loadErrored
    /\ loadSeen = [i \in 1..Len(wf) |-> LoadMap(wf[i].payload)]

\* C10: the loadedCount of the payloads the loader sends never decreases
\* and never exceeds toLoadCount, on the worker's load$ and on the caller's
\* onProgress alike; loadCompleted$ emits at most once and the caller sees
\* the drained loader at most once; and once the caller has seen it with
\* disposeOnComplete set, dispose() of the loader has been requested.
C10_DrainedAtMostOnce ==
    /\ ldLoaded <= ldToLoad
    /\ CountsMonotone(loadSeen)
    /\ \A i, j \in 1..Len(progressSeen) : i < j => progressSeen[i] <= progressSeen[j]
    /\ \A i \in 1..Len(progressSeen) : progressSeen[i] <= ldToLoad
    /\ Len(completedSeen) <= 1
    /\ Occurrences(completeSeen, ldToLoad) <= 1
    /\ (DisposeOnComplete /\ Occurrences(completeSeen, ldToLoad) = 1) =>
          (ldDisposed \/ \E k \in 1..Len(toLoader) : toLoader[k] = "dispose")

\* C10: a loader of two items has drained, load$ has delivered both
\* payloads, loadCompleted$ has emitted and the loader has been disposed
C10_DrainedAndDisposed ==
    /\ DisposeOnComplete
    /\ Len(loadSeen) >= 2
    /\ Len(completedSeen) = 1
    /\ Occurrences(completeSeen, ldToLoad) = 1
    /\ ldDisposed

\* C11: loadResources invokes dispose() of the loader only when
\* disposeOnComplete is true or omitted, only once the loader is drained
\* (loadedCount = toLoadCount), and at most once.
C11_DisposeOnlyWhenDrained ==
    [][disposeCalls' # disposeCalls =>
          /\ DisposeOnComplete
          /\ ldLoaded = ldToLoad
          /\ disposeCalls = 0]_vars

\* C11: with disposeOnComplete false the loader drains and loadResources
\* has not invoked dispose()
C11_DrainedNotDisposed ==
    /\ ~DisposeOnComplete
    /\ Occurrences(completeSeen, ldToLoad) = 1
    /\ disposeCalls = 0

\* a message of the worker's channel that _initLoader posted for a payload
\* of serializedLoad$
PostedByLoader(m) == m.raw \/ WellFormedEnvelope(m)

\* the messages of seq that _initLoader posted
LoaderPosted(seq) == Cardinality({k \in 1..Len(seq) : PostedByLoader(seq[k])})

\* C21: every payload of serializedLoad$ reaches the worker in a form load$
\* accepts: each loaded resource, an ArrayBuffer included, is either still
\* on its way to the worker or has been emitted by load$ with its
\* loadedCount, its toLoadCount and its source, so none is dropped.
C21_NoResourceDroppedAtBoundary ==
    /\ Len(loadSeen) + LoaderPosted(wire) = ldLoaded
    /\ \A i \in 1..Len(loadSeen) :
          /\ loadSeen[i].loadedCount = i
          /\ loadSeen[i].toLoadCount = ldToLoad
          /\ loadSeen[i].source # NoSource

(***************************************************************************)
(* Controlling-side RegisterModule: modules/register/register.module.ts,   *)
(* and the worker pool it spawns the render worker and the loader workers  *)
(* through.                                                                *)
(***************************************************************************)
\* the module before its constructor runs
ModInit ==
    /\ props \in [canvas : CanvasProps, fullScreen : BOOLEAN, initOnConstruct : {TRUE}]
    /\ env \in [selectorMatches : BOOLEAN,
                geometry : {CHOOSE g \in Geometries : g.innerWidth = 8}]
    /\ constructed = FALSE
    /\ dom = [c \in CanvasIds |->
                 IF c = CallerCanvas
                 THEN [exists |-> TRUE, attached |-> TRUE, reactive |-> FALSE,
                       placeholder |-> FALSE]
                 ELSE NoCanvas]
    /\ service = [canvas |-> None, offscreenCanvas |-> None, worker |-> None, thread |-> None]
    /\ initialized = FALSE
    /\ initPc = [p \in Inits |-> "idle"]
    /\ disposePc = [d \in Disposes |-> "idle"]
    /\ live = {}
    /\ spawned = 0
    /\ handedOff = {}
    /\ transferCalls = [c \in CanvasIds |-> 0]
    /\ offscreenOps = 0
    /\ detachedBy = {}
    /\ resizeSent = <<>>
    /\ runCalls = 0
    /\ onReadyCalls = 0
    /\ stored = [p \in Inits |-> NoHandle]
    /\ pending = [p \in Inits |-> None]
    /\ ModUnused

\* the state no step of this module writes
ModIdle == UNCHANGED <<props, env, initialized, offscreenOps, detachedBy, onReadyCalls>>

\* _initCanvas, lines 44-56: the canvas created at line 44 stays in
\* component.canvas unless the props name an element or the selector finds
\* one; a selector that querySelector rejects throws into the catch
ModCanvasKeepsCreated ==
    \/ props.canvas \in {"undefined", "badSelector"}
    \/ props.canvas = "selector" /\ QuerySelector = None

\* _initCanvas: the canvas left in component.canvas
ModCanvasResult == IF ModCanvasKeepsCreated THEN FreshCanvas ELSE CallerCanvas

\* _initCanvas, lines 58-59: reached unless the selector threw
ModCanvasAppended == props.canvas # "badSelector"

\* init() up to its first await: registerSerializer, then _initCanvas
ModInitBegin(p) ==
    /\ initPc' = [initPc EXCEPT ![p] = "core"]
    /\ service' = [service EXCEPT !.canvas = ModCanvasResult]
    /\ dom' = IF ModCanvasKeepsCreated
              THEN [dom EXCEPT ![ModCanvasResult] =
                       [exists |-> TRUE, attached |-> ModCanvasAppended,
                        reactive |-> FALSE, placeholder |-> FALSE]]
              ELSE [dom EXCEPT ![CallerCanvas].attached =
                       IF ModCanvasAppended THEN TRUE ELSE @]

\* the constructor, lines 33-40: it calls init()
ModConstruct ==
    /\ ModFrame
    /\ ModIdle
    /\ ~constructed
    /\ constructed' = TRUE
    /\ ModInitBegin(1)
    /\ UNCHANGED <<disposePc, live, spawned, handedOff, transferCalls, resizeSent,
                   runCalls, stored, pending, modVars>>

\* a caller invokes init()
ModInitCall(p) ==
    /\ ModFrame
    /\ ModIdle
    /\ constructed
    /\ initPc[p] = "idle"
    /\ \A q \in Inits : q < p => initPc[q] # "idle"
    /\ ModInitBegin(p)
    /\ UNCHANGED <<constructed, disposePc, live, spawned, handedOff, transferCalls,
                   resizeSent, runCalls, stored, pending, modVars>>

\* _initCore up to its await (lines 106-119): the transfer of control, which
\* the DOM refuses for a canvas that is already a placeholder, and the
\* workerPool.run() request, for which the pool spawns a context
ModInitCore(p) ==
    /\ ModFrame
    /\ ModIdle
    /\ initPc[p] = "core"
    /\ LET c == service.canvas
           w == spawned + 1
       IN  /\ transferCalls' = [transferCalls EXCEPT ![c] = @ + 1]
           /\ IF dom[c].placeholder
              THEN /\ initPc' = [initPc EXCEPT ![p] = "rejected"]
                   /\ UNCHANGED <<dom, runCalls, pending, spawned, starting, initCtx>>
              ELSE /\ dom' = [dom EXCEPT ![c].placeholder = TRUE]
                   /\ runCalls' = runCalls + 1
                   /\ pending' = [pending EXCEPT ![p] = c]
                   /\ spawned' = w
                   /\ starting' = starting \cup {w}
                   /\ initCtx' = [initCtx EXCEPT ![p] = w]
                   /\ initPc' = [initPc EXCEPT ![p] = "run"]
    /\ UNCHANGED <<constructed, service, disposePc, live, handedOff, resizeSent, stored,
                   modEvents, modCompleted, loadPc, loadCtx, subs, channel, pushes,
                   callbacks, killed>>

\* _initCore, lines 121-122, and a rejected run(): the results that make
\* _initCore throw
ModCoreFatal(outcome) == outcome # "both"

\* workerPool.run() settles and _initCore resumes (lines 121-124).  A context
\* torn down before it signalled readiness never yields a handle.
ModRunSettle(p, outcome) ==
    /\ ModFrame
    /\ ModIdle
    /\ initPc[p] = "run"
    /\ LET w == initCtx[p] IN
       /\ w \in starting \/ outcome = "reject"
       /\ starting' = starting \ {w}
       /\ IF RunSpawns(outcome)
          THEN /\ live' = live \cup {w}
               /\ handedOff' = handedOff \cup {pending[p]}
          ELSE UNCHANGED <<live, handedOff>>
       /\ IF ModCoreFatal(outcome)
          THEN /\ initPc' = [initPc EXCEPT ![p] = "rejected"]
               /\ UNCHANGED <<service, stored>>
          ELSE /\ service' = [service EXCEPT !.worker = RunHandle(outcome, w).worker,
                                             !.thread = RunHandle(outcome, w).thread]
               /\ stored' = [stored EXCEPT ![p] =
                                [worker |-> RunHandle(outcome, w).worker,
                                 thread |-> RunHandle(outcome, w).thread,
                                 kept |-> TRUE]]
               /\ initPc' = [initPc EXCEPT ![p] = "component"]
    /\ UNCHANGED <<constructed, dom, disposePc, spawned, transferCalls, resizeSent,
                   runCalls, pending, modEvents, modCompleted, initCtx, loadPc, loadCtx,
                   subs, channel, pushes, callbacks, killed>>

\* _initComponent
ModInitComponent(p) ==
    /\ ModFrame
    /\ ModIdle
    /\ initPc[p] = "component"
    /\ initPc' = [initPc EXCEPT ![p] = "controller"]
    /\ UNCHANGED <<constructed, dom, service, disposePc, live, spawned, handedOff,
                   transferCalls, resizeSent, runCalls, stored, pending, modVars>>

\* _initController, lines 75-92: the resize payload sent to the thread
ModResizePayload ==
    LET g == env.geometry IN
    [type |-> "resize",
     x |-> IF props.fullScreen THEN g.innerWidth ELSE g.width,
     y |-> IF props.fullScreen THEN g.innerHeight ELSE g.height,
     top |-> g.top,
     left |-> g.left,
     width |-> IF props.fullScreen THEN g.innerWidth ELSE g.width,
     height |-> IF props.fullScreen THEN g.innerHeight ELSE g.height]

\* _initController, line 73: it goes on only with a thread and a worker
ModControllerGoesOn == service.thread # None /\ service.worker # None

\* _initController: the resize is forwarded and the module subscribes to the
\* lifecycle$ stream of the render worker
ModInitController(p) ==
    /\ ModFrame
    /\ ModIdle
    /\ initPc[p] = "controller"
    /\ initPc' = [initPc EXCEPT ![p] = "emit"]
    /\ IF ModControllerGoesOn
       THEN /\ resizeSent' = Append(resizeSent, [by |-> p, payload |-> ModResizePayload])
            /\ subs' = [subs EXCEPT ![service.thread] = @ \cup {"lifecycle$"}]
       ELSE UNCHANGED <<resizeSent, subs>>
    /\ UNCHANGED <<constructed, dom, service, disposePc, live, spawned, handedOff,
                   transferCalls, runCalls, stored, pending, modEvents, modCompleted,
                   starting, initCtx, loadPc, loadCtx, channel, pushes, callbacks, killed>>

\* init(), line 135: INITIALIZED on the module's own lifecycle stream
ModInitEmit(p) ==
    /\ ModFrame
    /\ ModIdle
    /\ initPc[p] = "emit"
    /\ initPc' = [initPc EXCEPT ![p] = "done"]
    /\ modEvents' = LifecycleNext(modEvents, modCompleted, INITIALIZED)
    /\ UNCHANGED <<constructed, dom, service, disposePc, live, spawned, handedOff,
                   transferCalls, resizeSent, runCalls, stored, pending, modCompleted,
                   starting, initCtx, loadPc, loadCtx, subs, channel, pushes, callbacks,
                   killed>>

\* loadResources up to its await (lines 146-154): a run() request on the
\* same pool, for which the pool spawns a context
ModLoadResources(l) ==
    /\ ModFrame
    /\ ModIdle
    /\ constructed
    /\ loadPc[l] = "idle"
    /\ \A k \in Loads : k < l => loadPc[k] # "idle"
    /\ LET w == spawned + 1 IN
       /\ spawned' = w
       /\ starting' = starting \cup {w}
       /\ loadCtx' = [loadCtx EXCEPT ![l] = w]
    /\ runCalls' = runCalls + 1
    /\ loadPc' = [loadPc EXCEPT ![l] = "run"]
    /\ UNCHANGED <<constructed, dom, service, initPc, disposePc, live, handedOff,
                   transferCalls, resizeSent, stored, pending, modEvents, modCompleted,
                   initCtx, subs, channel, pushes, callbacks, killed>>

\* run() settles and loadResources subscribes to progress$ and
\* progressCompleted$ of the loader thread (lines 156-168)
ModLoadSettle(l, outcome) ==
    /\ ModFrame
    /\ ModIdle
    /\ loadPc[l] = "run"
    /\ LET w == loadCtx[l] IN
       /\ w \in starting \/ outcome = "reject"
       /\ starting' = starting \ {w}
       /\ live' = IF outcome = "reject" THEN live ELSE live \cup {w}
       /\ subs' = IF outcome = "thread"
                  THEN [subs EXCEPT ![w] = {"progress$", "progressCompleted$"}]
                  ELSE subs
       /\ loadPc' = [loadPc EXCEPT ![l] = IF outcome = "reject" THEN "rejected" ELSE "ready"]
    /\ UNCHANGED <<constructed, dom, service, initPc, disposePc, spawned, handedOff,
                   transferCalls, resizeSent, runCalls, stored, pending, modEvents,
                   modCompleted, initCtx, loadCtx, channel, pushes, callbacks, killed>>

\* a live worker pushes an event on a stream the module subscribed to
WorkerPush(w, stream) ==
    /\ ModFrame
    /\ ModIdle
    /\ w \in live
    /\ stream \in subs[w]
    /\ pushes < MaxPushes
    /\ pushes' = pushes + 1
    /\ channel' = [channel EXCEPT ![w] = Append(@, stream)]
    /\ UNCHANGED <<constructed, dom, service, initPc, disposePc, live, spawned, handedOff,
                   transferCalls, resizeSent, runCalls, stored, pending, modEvents,
                   modCompleted, starting, initCtx, loadPc, loadCtx, subs, callbacks,
                   killed>>

\* a push reaches the module and the subscription callback runs (lines
\* 96-102, 158-160, 164-168)
ModDeliver(w) ==
    /\ ModFrame
    /\ ModIdle
    /\ channel[w] # <<>>
    /\ channel' = [channel EXCEPT ![w] = Tail(@)]
    /\ callbacks' = Append(callbacks,
                           [ctx |-> w, stream |-> Head(channel[w]), stale |-> w \in killed])
    /\ UNCHANGED <<constructed, dom, service, initPc, disposePc, live, spawned, handedOff,
                   transferCalls, resizeSent, runCalls, stored, pending, modEvents,
                   modCompleted, starting, initCtx, loadPc, loadCtx, subs, pushes, killed>>

\* the contexts only the render handle of the module designates
DisposeTerminatesCoreOnly == IF service.worker = None THEN {} ELSE {service.worker} \cap live

\* dispose(), line 219: terminateAll() of the one pool that _initCore and
\* loadResources both spawn through reaches every context of the module
DisposeTerminates == live \cup starting

\* terminateAll() on the contexts T: they are torn down and their streams
\* complete, so what they pushed and was not delivered is dropped
TerminateAll(T) ==
    /\ live' = live \ T
    /\ starting' = starting \ T
    /\ killed' = killed \cup T
    /\ channel' = [w \in Contexts |-> IF w \in T THEN <<>> ELSE channel[w]]
    /\ subs' = [w \in Contexts |-> IF w \in T THEN {} ELSE subs[w]]

\* dispose(), lines 218-221
ModDispose(d) ==
    /\ ModFrame
    /\ ModIdle
    /\ constructed
    /\ disposePc[d] = "idle"
    /\ \A e \in Disposes : e < d => disposePc[e] # "idle"
    /\ disposePc' = [disposePc EXCEPT ![d] = "done"]
    /\ TerminateAll(DisposeTerminates)
    /\ modEvents' = LifecycleNext(modEvents, modCompleted, DISPOSED)
    /\ UNCHANGED <<constructed, dom, service, initPc, spawned, handedOff, transferCalls,
                   resizeSent, runCalls, stored, pending, modCompleted, initCtx, loadPc,
                   loadCtx, pushes, callbacks>>

ModNext ==
    \/ ModConstruct
    \/ \E p \in Inits : ModInitCall(p)
    \/ \E p \in Inits : ModInitCore(p)
    \/ \E p \in Inits : \E outcome \in RunOutcomes : ModRunSettle(p, outcome)
    \/ \E p \in Inits : ModInitComponent(p)
    \/ \E p \in Inits : ModInitController(p)
    \/ \E p \in Inits : ModInitEmit(p)
    \/ \E l \in Loads : ModLoadResources(l)
    \/ \E l \in Loads : \E outcome \in {"thread", "noThread", "reject"} : ModLoadSettle(l, outcome)
    \/ \E w \in Contexts : \E stream \in {"lifecycle$", "progress$", "progressCompleted$"} :
          WorkerPush(w, stream)
    \/ \E w \in Contexts : ModDeliver(w)
    \/ \E d \in Disposes : ModDispose(d)

\* the module before its constructor; the worker side stays untouched
ModStart == ModInit /\ CoreConstructed /\ LoaderUnused

SpecMod == ModStart /\ [][ModNext]_vars

C20_LifecycleClosesOnDispose ==
    /\ Occurrences(modEvents, DISPOSED) <= 1
    /\ (\E d \in Disposes : disposePc[d] = "done") => modCompleted

(***************************************************************************)
(* Claims about failures and disposal of the controlling-side module.      *)
(***************************************************************************)
\* the steps of init() that come after the spawn step
PastSpawnStep ==
    {"service", "controller", "proxyEvents", "loader", "ready",
     "component", "emit", "done"}

\* C13: when the spawn step fails (run rejects or resolves without a usable
\* handle) init() rejects and no later step of it runs: an init() call is
\* past its spawn step only with a handle that has both a worker and a
\* thread, only such calls forward a resize, and run() is not requested
\* again.
C13_HandshakeFailureAborts ==
    /\ \A p \in Inits :
          initPc[p] \in PastSpawnStep =>
              stored[p].kept /\ stored[p].worker # None /\ stored[p].thread # None
    /\ \A i \in 1..Len(resizeSent) :
          stored[resizeSent[i].by].worker # None /\ stored[resizeSent[i].by].thread # None
    /\ runCalls <= Cardinality({p \in Inits : initPc[p] \notin {"idle", "noop"}})
                      + Cardinality({l \in Loads : loadPc[l] # "idle"})

\* C13: an init() call has rejected at the spawn step and nothing of it ran
\* afterwards
C13_InitAbortedAtHandshake ==
    \E p \in Inits :
        /\ initPc[p] = "rejected"
        /\ pending[p] # None
        /\ ~stored[p].kept
        /\ resizeSent = <<>>
        /\ onReadyCalls = 0

\* C14: init() never rejects for want of a canvas: a failure to locate or
\* create the canvas is caught and logged, and the spawn step that follows
\* finds a canvas to work with.
C14_CanvasFailureNotFatal ==
    [][\A p \in Inits :
          (initPc[p] \in {"workerThread", "core"} /\ initPc'[p] = "rejected") =>
              service.canvas # None]_vars

\* C16: once a dispose() has completed, the worker and the thread the module
\* hands out through getWorker() and getThread() are not those of a
\* terminated context.
C16_ProxyDoesNotOutliveWorker ==
    (\E d \in Disposes : disposePc[d] = "done") =>
        /\ service.worker # None => service.worker \in live
        /\ service.thread # None => service.thread \in live

(***************************************************************************)
(* Further claims about the worker-resident CoreModule.                    *)
(***************************************************************************)
\* C15: the first dispose() emits DISPOSED and completes the lifecycle
\* stream; DISPOSED is emitted once, and once the stream is completed no
\* init(), dispose() or message adds an emission.
C15_DisposedThenClosed ==
    [][/\ completed => (completed' /\ events' = events)
       /\ (~completed /\ completed') => events' = Append(events, DISPOSED)
       /\ Occurrences(events', DISPOSED) <= 1
       /\ Occurrences(events', DISPOSED) = 1 => completed']_vars

\* C15: dispose() came first, then an init() ran its whole setup, and the
\* closed stream shows DISPOSED alone
C15_SilentAfterDispose ==
    /\ completed
    /\ events = <<DISPOSED>>
    /\ setupLog = SetupSteps
    /\ component.initialized

\* the first k entries of seq
Prefix(seq, k) == SubSeq(seq, 1, k)

\* C17: INITIALIZED is emitted only once the surface is in place and the
\* sizes, timer, camera, world and renderer have been set up, and in every
\* run of init the sizes are set up before the camera and before the
\* renderer.
C17_InitializedAfterSetup ==
    [][/\ (events' # events /\ events'[Len(events')] = INITIALIZED) =>
              /\ component'.canvas # NoSurface
              /\ \A s \in {"sizes", "timer", "camera", "world", "renderer"} :
                    Occurrences(setupLog', s) >= 1
       /\ \A i \in 1..Len(setupLog') :
              setupLog'[i] \in {"camera", "renderer"} =>
                  Occurrences(Prefix(setupLog', i), "sizes")
                      >= Occurrences(Prefix(setupLog', i), setupLog'[i])]_vars

\* C17: init ran to its end and INITIALIZED was emitted
C17_InitializedEmitted ==
    /\ events # <<>>
    /\ events[1] = INITIALIZED
    /\ setupLog = SetupSteps
    /\ component.canvas # NoSurface

InFlight(stream) == Cardinality({k \in 1..Len(toCtl) : toCtl[k].stream = stream})

\* C19: once loadResources holds the loader thread it requests load() itself
\* exactly when immediateLoad is true or omitted; no load request is ever
\* ahead of a subscription request on the channel; and every item the
\* loader completes reaches onProgress and onProgressComplete or is on its
\* way to them.
C19_SubscribedBeforeLoad ==
    [][/\ (lrPc = "run" /\ lrPc' = "ready") =>
              /\ ImmediateLoad => (loadCalls' = loadCalls + 1 /\ toLoader'[Len(toLoader')] = "load")
              /\ ~ImmediateLoad => (loadCalls' = loadCalls /\ \A k \in 1..Len(toLoader') : toLoader'[k] # "load")
       /\ \A i, j \in 1..Len(toLoader') :
              (i < j /\ toLoader'[i] = "load") =>
                  toLoader'[j] \notin {"progress$", "progressCompleted$"}
       /\ ldLoaded' = Len(progressSeen') + InFlight("progress$")'
       /\ ldLoaded' = Len(completeSeen') + InFlight("progressCompleted$")']_vars

\* C19: with immediateLoad omitted or true and nothing disposing the loader,
\* both items of a load were reported to onProgress and onProgressComplete
C19_EveryItemReported ==
    /\ ImmediateLoad
    /\ ~DisposeOnComplete
    /\ ldToLoad = 2
    /\ progressSeen = <<1, 2>>
    /\ completeSeen = <<1, 2>>
    /\ loadCalls = 1

====
